---- MODULE Spec2Model ----
(* A model of the compressed bit-set library: the polymorphic 2^16 block    *)
(* (Seq16 | Seq64 | Rle16), its optimize heuristic and rank/select, and the *)
(* maps that shard a wider universe over blocks (BitMap, Vec32, Vec64).     *)
(* Wide integers are kept as tuples of 16-bit limbs, most significant      *)
(* first: a u32 is <<hi, lo>>, a u64 is <<l3, l2, l1, l0>>.                 *)
EXTENDS Integers, Sequences, FiniteSets, TLC

VARIABLES target, build, block, that, pop, vec64, bitmap, shadow, abs, last, prev

vars == <<target, build, block, that, pop, vec64, bitmap, shadow, abs, last, prev>>

----------------------------------------------------------------------------
(* Program constants.                                                       *)

SEQ16 == 4096
SEQ64 == 1024
CAPACITY == 65536
U16MAX == 65535
WORD == 64

Min(a, b) == IF a <= b THEN a ELSE b

(* A panicking u16 overflow (debug build) is carried as this marker.        *)
Panic == 0 - 1

(* u16 addition: wraps in a release build, panics in a debug build.         *)
AddU16(a, b) ==
    IF a = Panic \/ b = Panic THEN Panic
    ELSE IF a + b > U16MAX
         THEN (IF build = "debug" THEN Panic ELSE (a + b) % (U16MAX + 1))
         ELSE a + b

(* Option<u16>, with the panic of a debug build as a third outcome.         *)
Some(v) == [tag |-> "Some", val |-> v]
None == [tag |-> "None", val |-> 0]
Panicked == [tag |-> "Panic", val |-> 0]

----------------------------------------------------------------------------
(* Helpers over finite sets of naturals.                                    *)

RECURSIVE SetToSeq(_, _, _)
(* The ascending sequence of the elements of S, a subset of lo..hi.         *)
SetToSeq(S, lo, hi) ==
    IF S = {} THEN << >>
    ELSE IF lo = hi THEN <<lo>>
    ELSE LET mid == (lo + hi) \div 2
         IN  SetToSeq({x \in S : x <= mid}, lo, mid)
                \o SetToSeq({x \in S : x > mid}, mid + 1, hi)

RangeOf(s) == {s[i] : i \in 1..Len(s)}

----------------------------------------------------------------------------
(* u64 words, kept as the set of their set bit positions (0..63). An array  *)
(* of words is kept as the function from the 0-based indices of its         *)
(* non-zero words to those words; every other word of the array is zero.    *)

EmptyWord == {}

Word(vec, q) == IF q \in DOMAIN vec THEN vec[q] ELSE EmptyWord

SetWord(vec, q, w) ==
    IF w = EmptyWord THEN [p \in DOMAIN vec \ {q} |-> vec[p]]
    ELSE [p \in DOMAIN vec \cup {q} |-> IF p = q THEN w ELSE vec[p]]

NoWords == [p \in {} |-> EmptyWord]

(* The 0-based indices below n of the non-zero words, ascending.            *)
NonZero(vec, n) == SetToSeq({q \in DOMAIN vec : q < n}, 0, SEQ64 - 1)

WordCount1(w) == Cardinality(w)

WordRank1(w, r) == Cardinality({b \in w : b < r})

WordSelect1(w, k) ==
    IF k >= Cardinality(w) THEN None
    ELSE Some(CHOOSE b \in w : Cardinality({y \in w : y < b}) = k)

----------------------------------------------------------------------------
(* The three representations. A block is a record                           *)
(*   [kind, weight, vector, words, ranges]                                  *)
(* Seq16: vector is the ascending sequence of u16.                          *)
(* Seq64: words is the vector of SEQ64 u64 words.                           *)
(* Rle16: ranges is the ascending sequence of inclusive <<start, end>>.     *)

MkSeq16(w, v) ==
    [kind |-> "Seq16", weight |-> w, vector |-> v, words |-> NoWords, ranges |-> << >>]
MkSeq64(w, v) ==
    [kind |-> "Seq64", weight |-> w, vector |-> << >>, words |-> v, ranges |-> << >>]
MkRle16(w, r) ==
    [kind |-> "Rle16", weight |-> w, vector |-> << >>, words |-> NoWords, ranges |-> r]

Seq16New == MkSeq16(0, << >>)
Seq64New == MkSeq64(0, NoWords)
Rle16New == MkRle16(0, << >>)

(* The elements a representation holds (what its iteration yields).         *)
Seq16Bits(b) == RangeOf(b.vector)
Seq64Bits(b) == UNION {{WORD * q + r : r \in b.words[q]} : q \in DOMAIN b.words}
Rle16Bits(b) == UNION {b.ranges[n][1]..b.ranges[n][2] : n \in 1..Len(b.ranges)}

(* Size estimators, in bytes.                                               *)
Seq16Size(n) == 16 + 2 * n
Seq64Size(n) == 16 + 8 * n
Rle16Size(r) == 16 + 4 * r

CountRle(rle) == Len(rle.ranges)

(* ---- Seq16 ---- *)
RECURSIVE Seq16Search(_, _, _, _)
(* search!(i, j, fun) with fun(p) = vec.get(p).map_or(false, |v| v >= bit): *)
(* the least 0-based p in i..j with fun(p), by bisection.                   *)
Seq16Search(vec, i, j, bit) ==
    IF i >= j THEN i
    ELSE LET h == i + (j - i) \div 2
         IN  IF ~(h < Len(vec) /\ vec[h + 1] >= bit)
             THEN Seq16Search(vec, h + 1, j, bit)
             ELSE Seq16Search(vec, i, h, bit)

Seq16Contains(b, bit) ==
    LET p == Seq16Search(b.vector, 0, Len(b.vector), bit)
    IN  p < Len(b.vector) /\ b.vector[p + 1] = bit

Seq16Insert(b, bit) ==
    IF Seq16Contains(b, bit) THEN [ok |-> FALSE, blk |-> b]
    ELSE LET p == Seq16Search(b.vector, 0, Len(b.vector), bit)
             v == SubSeq(b.vector, 1, p) \o <<bit>>
                    \o SubSeq(b.vector, p + 1, Len(b.vector))
         IN  [ok |-> TRUE, blk |-> MkSeq16(b.weight + 1, v)]

Seq16Remove(b, bit) ==
    IF ~Seq16Contains(b, bit) THEN [ok |-> FALSE, blk |-> b]
    ELSE LET p == Seq16Search(b.vector, 0, Len(b.vector), bit) + 1
             v == SubSeq(b.vector, 1, p - 1)
                    \o SubSeq(b.vector, p + 1, Len(b.vector))
         IN  [ok |-> TRUE, blk |-> MkSeq16(b.weight - 1, v)]

(* ---- Seq64 ---- *)
Seq64Contains(b, bit) == (bit % WORD) \in Word(b.words, bit \div WORD)

Seq64Insert(b, bit) ==
    IF Seq64Contains(b, bit) THEN [ok |-> FALSE, blk |-> b]
    ELSE LET q == bit \div WORD
         IN  [ok |-> TRUE,
              blk |-> MkSeq64(b.weight + 1,
                         SetWord(b.words, q, Word(b.words, q) \cup {bit % WORD}))]

Seq64Remove(b, bit) ==
    IF ~Seq64Contains(b, bit) THEN [ok |-> FALSE, blk |-> b]
    ELSE LET q == bit \div WORD
         IN  [ok |-> TRUE,
              blk |-> MkSeq64(b.weight - 1,
                         SetWord(b.words, q, Word(b.words, q) \ {bit % WORD}))]

(* ---- Rle16 ---- *)
RECURSIVE Rle16Bisect(_, _, _, _)
(* The least 0-based n in i..j whose range ends at or after bit.            *)
Rle16Bisect(rs, i, j, bit) ==
    IF i >= j THEN i
    ELSE LET h == i + (j - i) \div 2
         IN  IF rs[h + 1][2] < bit
             THEN Rle16Bisect(rs, h + 1, j, bit)
             ELSE Rle16Bisect(rs, i, h, bit)

(* Binary search for the range holding bit: Ok(n) with the 0-based index of *)
(* that range, or Err(n) with the 0-based insertion point.                  *)
Rle16Search(b, bit) ==
    LET n == Rle16Bisect(b.ranges, 0, Len(b.ranges), bit)
    IN  [ok |-> n < Len(b.ranges) /\ b.ranges[n + 1][1] <= bit, n |-> n]

Rle16Contains(b, bit) == Rle16Search(b, bit).ok

Rle16Insert(b, bit) ==
    LET s == Rle16Search(b, bit)
        rs == b.ranges
        n == s.n
        joinL == n >= 1 /\ rs[n][2] + 1 = bit
        joinR == n < Len(rs) /\ rs[n + 1][1] = bit + 1
        new == IF joinL /\ joinR
                 THEN SubSeq(rs, 1, n - 1) \o << <<rs[n][1], rs[n + 1][2]>> >>
                        \o SubSeq(rs, n + 2, Len(rs))
               ELSE IF joinL
                 THEN [rs EXCEPT ![n] = <<rs[n][1], bit>>]
               ELSE IF joinR
                 THEN [rs EXCEPT ![n + 1] = <<bit, rs[n + 1][2]>>]
               ELSE SubSeq(rs, 1, n) \o << <<bit, bit>> >>
                        \o SubSeq(rs, n + 1, Len(rs))
    IN  IF s.ok THEN [ok |-> FALSE, blk |-> b]
        ELSE [ok |-> TRUE, blk |-> MkRle16(b.weight + 1, new)]

Rle16Remove(b, bit) ==
    LET s == Rle16Search(b, bit)
        rs == b.ranges
        n == s.n + 1
        lo == rs[n][1]
        hi == rs[n][2]
        mid == IF lo = hi THEN << >>
               ELSE IF bit = lo THEN << <<lo + 1, hi>> >>
               ELSE IF bit = hi THEN << <<lo, hi - 1>> >>
               ELSE << <<lo, bit - 1>>, <<bit + 1, hi>> >>
    IN  IF ~s.ok THEN [ok |-> FALSE, blk |-> b]
        ELSE [ok |-> TRUE,
              blk |-> MkRle16(b.weight - 1,
                         SubSeq(rs, 1, n - 1) \o mid \o SubSeq(rs, n + 1, Len(rs)))]

(* ---- conversions ---- *)
Seq16FromBits(S) == MkSeq16(Cardinality(S), SetToSeq(S, 0, U16MAX))

Seq64FromBits(S) ==
    MkSeq64(Cardinality(S),
            [q \in {x \div WORD : x \in S} |->
                {r \in 0..(WORD - 1) : (WORD * q + r) \in S}])

(* The ranges whose first elements are `starts` and last elements `ends`.   *)
Rle16FromRuns(weight, starts, ends) ==
    LET ss == SetToSeq(starts, 0, U16MAX)
        ee == SetToSeq(ends, 0, U16MAX)
    IN  MkRle16(weight, [n \in 1..Len(ss) |-> <<ss[n], ee[n]>>])

Rle16FromBits(S) ==
    Rle16FromRuns(Cardinality(S), {x \in S : (x - 1) \notin S},
                  {x \in S : (x + 1) \notin S})

(* One pass over the ascending vector: a run starts where the predecessor   *)
(* is not the element before, and ends where the successor is not the next. *)
Rle16FromSeq16(b) ==
    LET v == b.vector
        n == Len(v)
    IN  Rle16FromRuns(b.weight,
            {v[i] : i \in {j \in 1..n : j = 1 \/ v[j - 1] + 1 # v[j]}},
            {v[i] : i \in {j \in 1..n : j = n \/ v[j] + 1 # v[j + 1]}})

(* One pass over the words: bit r of word q starts a run where the bit      *)
(* before it (bit 63 of word q-1 for r = 0) is clear, and ends one where    *)
(* the bit after it is clear.                                               *)
Rle16FromSeq64(b) ==
    LET vec == b.words
        first(q) == {r \in vec[q] :
                        IF r = 0 THEN (WORD - 1) \notin Word(vec, q - 1)
                        ELSE (r - 1) \notin vec[q]}
        final(q) == {r \in vec[q] :
                        IF r = WORD - 1 THEN 0 \notin Word(vec, q + 1)
                        ELSE (r + 1) \notin vec[q]}
    IN  Rle16FromRuns(b.weight,
            UNION {{WORD * q + r : r \in first(q)} : q \in DOMAIN vec},
            UNION {{WORD * q + r : r \in final(q)} : q \in DOMAIN vec})

Seq16FromSeq64(b) == Seq16FromBits(Seq64Bits(b))
Seq16FromRle16(b) == Seq16FromBits(Rle16Bits(b))
Seq64FromSeq16(b) == Seq64FromBits(Seq16Bits(b))
Seq64FromRle16(b) == Seq64FromBits(Rle16Bits(b))

----------------------------------------------------------------------------
(* Block: the tagged variant and its dispatch.                              *)

BlockNew == Seq64New

BlockBits(b) ==
    CASE b.kind = "Seq16" -> Seq16Bits(b)
      [] b.kind = "Seq64" -> Seq64Bits(b)
      [] b.kind = "Rle16" -> Rle16Bits(b)

BlockContains(b, bit) ==
    CASE b.kind = "Seq16" -> Seq16Contains(b, bit)
      [] b.kind = "Seq64" -> Seq64Contains(b, bit)
      [] b.kind = "Rle16" -> Rle16Contains(b, bit)

BlockInsert(b, bit) ==
    CASE b.kind = "Seq16" -> Seq16Insert(b, bit)
      [] b.kind = "Seq64" -> Seq64Insert(b, bit)
      [] b.kind = "Rle16" -> Rle16Insert(b, bit)

BlockRemove(b, bit) ==
    CASE b.kind = "Seq16" -> Seq16Remove(b, bit)
      [] b.kind = "Seq64" -> Seq64Remove(b, bit)
      [] b.kind = "Rle16" -> Rle16Remove(b, bit)

MemSize(b) ==
    CASE b.kind = "Seq16" -> Seq16Size(b.weight)
      [] b.kind = "Seq64" -> Seq64Size(SEQ64)
      [] b.kind = "Rle16" -> Rle16Size(CountRle(b))

Count1(b) == b.weight

Count0(b) == CAPACITY - Count1(b)

(* Optimize keeping a run-length block only when it is strictly smaller.    *)
OptimizeStrictRle(b) ==
    LET mem_size == MemSize(b)
    IN  CASE b.kind = "Seq16" ->
               LET mem_in_seq16 == mem_size
                   mem_in_seq64 == Seq64Size(SEQ64)
                   rle == Rle16FromSeq16(b)
                   mem_in_rle16 == Rle16Size(CountRle(rle))
               IN  IF mem_in_rle16 <= Min(mem_in_seq64, mem_in_seq16) THEN rle
                   ELSE IF Count1(b) <= SEQ16 THEN b
                   ELSE Seq64FromSeq16(b)
          [] b.kind = "Seq64" ->
               LET mem_in_seq16 == Seq16Size(b.weight)
                   mem_in_seq64 == mem_size
                   rle == Rle16FromSeq64(b)
                   mem_in_rle16 == Rle16Size(CountRle(rle))
               IN  IF mem_in_rle16 <= Min(mem_in_seq64, mem_in_seq16) THEN rle
                   ELSE IF b.weight <= SEQ16 THEN Seq16FromSeq64(b)
                   ELSE b
          [] b.kind = "Rle16" ->
               LET mem_in_seq16 == Seq16Size(b.weight)
                   mem_in_seq64 == Seq64Size(SEQ64)
                   mem_in_rle16 == mem_size
               IN  IF mem_in_rle16 < Min(mem_in_seq64, mem_in_seq16) THEN b
                   ELSE IF b.weight <= SEQ16 THEN Seq16FromRle16(b)
                   ELSE Seq64FromRle16(b)

(* Optimize with the sorted-list limit one short: a weight of SEQ16 itself  *)
(* goes to the bit array.                                                   *)
OptimizeShortSeq16(b) ==
    LET mem_size == MemSize(b)
    IN  CASE b.kind = "Seq16" ->
               LET mem_in_seq16 == mem_size
                   mem_in_seq64 == Seq64Size(SEQ64)
                   rle == Rle16FromSeq16(b)
                   mem_in_rle16 == Rle16Size(CountRle(rle))
               IN  IF mem_in_rle16 <= Min(mem_in_seq64, mem_in_seq16) THEN rle
                   ELSE IF Count1(b) < SEQ16 THEN b
                   ELSE Seq64FromSeq16(b)
          [] b.kind = "Seq64" ->
               LET mem_in_seq16 == Seq16Size(b.weight)
                   mem_in_seq64 == mem_size
                   rle == Rle16FromSeq64(b)
                   mem_in_rle16 == Rle16Size(CountRle(rle))
               IN  IF mem_in_rle16 <= Min(mem_in_seq64, mem_in_seq16) THEN rle
                   ELSE IF b.weight < SEQ16 THEN Seq16FromSeq64(b)
                   ELSE b
          [] b.kind = "Rle16" ->
               LET mem_in_seq16 == Seq16Size(b.weight)
                   mem_in_seq64 == Seq64Size(SEQ64)
                   mem_in_rle16 == mem_size
               IN  IF mem_in_rle16 <= Min(mem_in_seq64, mem_in_seq16) THEN b
                   ELSE IF b.weight < SEQ16 THEN Seq16FromRle16(b)
                   ELSE Seq64FromRle16(b)

(* OptimizeKind taking Rle16 whenever it is no larger than Seq64.           *)
OptimizeKindRleAgainstSeq64(kind, weight, count_rle) ==
    LET mem_in_seq16 == Seq16Size(weight)
        mem_in_seq64 == Seq64Size(SEQ64)
        mem_in_rle16 == Rle16Size(count_rle)
    IN  IF mem_in_rle16 <= mem_in_seq64 THEN "Rle16"
        ELSE IF weight <= SEQ16 THEN "Seq16"
        ELSE "Seq64"

(* The representation optimize leaves a block in, as a function of what the *)
(* decision reads: the current representation, the weight and the number of *)
(* runs (rle.count_rle()). mem_size is the current representation's size.   *)
OptimizeKind(kind, weight, count_rle) ==
    LET mem_size == CASE kind = "Seq16" -> Seq16Size(weight)
                      [] kind = "Seq64" -> Seq64Size(SEQ64)
                      [] kind = "Rle16" -> Rle16Size(count_rle)
    IN  CASE kind = "Seq16" ->
               LET mem_in_seq16 == mem_size
                   mem_in_seq64 == Seq64Size(SEQ64)
                   mem_in_rle16 == Rle16Size(count_rle)
               IN  IF mem_in_rle16 <= Min(mem_in_seq64, mem_in_seq16) THEN "Rle16"
                   ELSE IF weight <= SEQ16 THEN kind
                   ELSE "Seq64"
          [] kind = "Seq64" ->
               LET mem_in_seq16 == Seq16Size(weight)
                   mem_in_seq64 == mem_size
                   mem_in_rle16 == Rle16Size(count_rle)
               IN  IF mem_in_rle16 <= Min(mem_in_seq64, mem_in_seq16) THEN "Rle16"
                   ELSE IF weight <= SEQ16 THEN "Seq16"
                   ELSE kind
          [] kind = "Rle16" ->
               LET mem_in_seq16 == Seq16Size(weight)
                   mem_in_seq64 == Seq64Size(SEQ64)
                   mem_in_rle16 == mem_size
               IN  IF mem_in_rle16 <= Min(mem_in_seq64, mem_in_seq16) THEN kind
                   ELSE IF weight <= SEQ16 THEN "Seq16"
                   ELSE "Seq64"

(* The representation optimize chooses from the projected sizes.           *)
Optimize(b) ==
    LET mem_size == MemSize(b)
    IN  CASE b.kind = "Seq16" ->
               LET mem_in_seq16 == mem_size
                   mem_in_seq64 == Seq64Size(SEQ64)
                   rle == Rle16FromSeq16(b)
                   mem_in_rle16 == Rle16Size(CountRle(rle))
               IN  IF mem_in_rle16 <= Min(mem_in_seq64, mem_in_seq16) THEN rle
                   ELSE IF Count1(b) <= SEQ16 THEN b
                   ELSE Seq64FromSeq16(b)
          [] b.kind = "Seq64" ->
               LET mem_in_seq16 == Seq16Size(b.weight)
                   mem_in_seq64 == mem_size
                   rle == Rle16FromSeq64(b)
                   mem_in_rle16 == Rle16Size(CountRle(rle))
               IN  IF mem_in_rle16 <= Min(mem_in_seq64, mem_in_seq16) THEN rle
                   ELSE IF b.weight <= SEQ16 THEN Seq16FromSeq64(b)
                   ELSE b
          [] b.kind = "Rle16" ->
               LET mem_in_seq16 == Seq16Size(b.weight)
                   mem_in_seq64 == Seq64Size(SEQ64)
                   mem_in_rle16 == mem_size
               IN  IF mem_in_rle16 <= Min(mem_in_seq64, mem_in_seq16) THEN b
                   ELSE IF b.weight <= SEQ16 THEN Seq16FromRle16(b)
                   ELSE Seq64FromRle16(b)

(* ---- rank1 ---- *)
RECURSIVE FoldCount1(_, _, _, _, _)
(* vec.iter().take(q).fold(acc, |acc, w| acc + w.count1()): the u16         *)
(* accumulator threaded left to right over the words idx[lo..hi] (a zero    *)
(* word adds nothing).                                                      *)
FoldCount1(vec, idx, lo, hi, acc) ==
    IF lo > hi THEN acc
    ELSE IF lo = hi THEN AddU16(acc, WordCount1(vec[idx[lo]]))
    ELSE LET mid == (lo + hi) \div 2
             left == FoldCount1(vec, idx, lo, mid, acc)
         IN  IF left = Panic THEN Panic
             ELSE FoldCount1(vec, idx, mid + 1, hi, left)

RECURSIVE SumLengths(_, _, _, _)
(* ranges.iter().map(|r| r.end - r.start + 1).take(n).sum::<u16>() over the *)
(* ranges lo..hi (1-based), the u16 accumulator threaded left to right.     *)
SumLengths(rs, lo, hi, acc) ==
    IF lo > hi THEN acc
    ELSE IF lo = hi THEN AddU16(acc, AddU16(rs[lo][2] - rs[lo][1], 1))
    ELSE LET mid == (lo + hi) \div 2
             left == SumLengths(rs, lo, mid, acc)
         IN  IF left = Panic THEN Panic
             ELSE SumLengths(rs, mid + 1, hi, left)

(* Rank1 whose sorted-list arm searches for the first entry above i: that   *)
(* arm alone counts i itself.                                               *)
Rank1Seq16Closed(b, i) ==
    CASE b.kind = "Seq16" -> Seq16Search(b.vector, 0, Len(b.vector), i + 1)
      [] b.kind = "Seq64" ->
           LET q == i \div WORD
               r == i % WORD
               idx == NonZero(b.words, q)
               init == FoldCount1(b.words, idx, 1, Len(idx), 0)
               lst == IF q < SEQ64 THEN WordRank1(Word(b.words, q), r) ELSE 0
           IN  AddU16(init, lst)
      [] b.kind = "Rle16" ->
           LET s == Rle16Search(b, i)
           IN  IF ~s.ok
               THEN IF s.n >= Len(b.ranges)
                    THEN b.weight % (U16MAX + 1)
                    ELSE SumLengths(b.ranges, 1, s.n, 0)
               ELSE LET r == SumLengths(b.ranges, 1, s.n, 0)
                    IN  AddU16(i - b.ranges[s.n + 1][1], r)

Rank1(b, i) ==
    CASE b.kind = "Seq16" -> Seq16Search(b.vector, 0, Len(b.vector), i)
      [] b.kind = "Seq64" ->
           LET q == i \div WORD
               r == i % WORD
               idx == NonZero(b.words, q)
               init == FoldCount1(b.words, idx, 1, Len(idx), 0)
               lst == IF q < SEQ64 THEN WordRank1(Word(b.words, q), r) ELSE 0
           IN  AddU16(init, lst)
      [] b.kind = "Rle16" ->
           LET s == Rle16Search(b, i)
           IN  IF ~s.ok
               THEN IF s.n >= Len(b.ranges)
                    THEN b.weight % (U16MAX + 1)
                    ELSE SumLengths(b.ranges, 1, s.n, 0)
               ELSE LET r == SumLengths(b.ranges, 1, s.n, 0)
                    IN  AddU16(i - b.ranges[s.n + 1][1], r)

(* ---- select1 ---- *)
Running(c) == [done |-> FALSE, ret |-> None, curr |-> c]
Return(o) == [done |-> TRUE, ret |-> o, curr |-> 0]

RECURSIVE Seq64SelectLoop(_, _, _, _, _)
(* The loop over the non-zero words idx[lo..hi], st.curr being `remain`.    *)
Seq64SelectLoop(vec, idx, lo, hi, st) ==
    IF st.done \/ lo > hi THEN st
    ELSE IF lo = hi
    THEN LET i == idx[lo]
             ones == WordCount1(vec[i])
         IN  IF st.curr < ones
             THEN LET sel == WordSelect1(vec[i], st.curr)
                      select == IF sel.tag = "Some" THEN sel.val ELSE 0
                  IN  Return(Some(WORD * i + select))
             ELSE Running(st.curr - ones)
    ELSE LET mid == (lo + hi) \div 2
             left == Seq64SelectLoop(vec, idx, lo, mid, st)
         IN  IF left.done THEN left
             ELSE Seq64SelectLoop(vec, idx, mid + 1, hi, left)

RECURSIVE Rle16SelectLoop(_, _, _, _, _)
(* The loop over the ranges lo..hi, st.curr being `curr`.                   *)
Rle16SelectLoop(rs, lo, hi, c, st) ==
    IF st.done \/ lo > hi THEN st
    ELSE IF lo = hi
    THEN LET next == AddU16(st.curr, AddU16(rs[lo][2] - rs[lo][1], 1))
         IN  IF next = Panic THEN Return(Panicked)
             ELSE IF next > c THEN Return(Some(rs[lo][1] - st.curr + c))
             ELSE Running(next)
    ELSE LET mid == (lo + hi) \div 2
             left == Rle16SelectLoop(rs, lo, mid, c, st)
         IN  IF left.done THEN left
             ELSE Rle16SelectLoop(rs, mid + 1, hi, c, left)

Select1(b, c) ==
    IF c >= Count1(b) THEN None
    ELSE CASE b.kind = "Seq16" ->
                IF c < Len(b.vector) THEN Some(b.vector[c + 1]) ELSE None
           [] b.kind = "Seq64" ->
                LET idx == NonZero(b.words, SEQ64)
                IN  Seq64SelectLoop(b.words, idx, 1, Len(idx), Running(c)).ret
           [] b.kind = "Rle16" ->
                Rle16SelectLoop(b.ranges, 1, Len(b.ranges), c, Running(0)).ret

(* ---- select0 ---- *)
WordSelect0(w, k) ==
    LET zs == (0..(WORD - 1)) \ w
    IN  IF k >= Cardinality(zs) THEN None
        ELSE Some(CHOOSE b \in zs : Cardinality({y \in zs : y < b}) = k)

RECURSIVE Seq64Select0Loop(_, _, _)
(* The loop over all the words from index i on, with `remain`.              *)
Seq64Select0Loop(vec, i, remain) ==
    IF i >= SEQ64 THEN None
    ELSE LET zeros == WORD - WordCount1(Word(vec, i))
         IN  IF remain < zeros
             THEN LET sel == WordSelect0(Word(vec, i), remain)
                      select == IF sel.tag = "Some" THEN sel.val ELSE 0
                  IN  Some(WORD * i + select)
             ELSE Seq64Select0Loop(vec, i + 1, remain - zeros)

RECURSIVE SelectByRank0(_, _, _, _)
(* select_by_rank!(0, ...): bisection for the least position of i..j with   *)
(* more than c zeros at or below it.                                        *)
SelectByRank0(b, c, i, j) ==
    IF i >= j THEN Some(i)
    ELSE LET h == i + (j - i) \div 2
             ones == Rank1(b, h) + (IF BlockContains(b, h) THEN 1 ELSE 0)
         IN  IF h + 1 - ones > c
             THEN SelectByRank0(b, c, i, h)
             ELSE SelectByRank0(b, c, h + 1, j)

Select0(b, c) ==
    IF c >= Count0(b) THEN None
    ELSE CASE b.kind \in {"Seq16", "Rle16"} -> SelectByRank0(b, c, 0, CAPACITY - 1)
           [] b.kind = "Seq64" -> Seq64Select0Loop(b.words, 0, c)

(* ---- iteration ---- *)
RECURSIVE Rle16Iter(_, _, _)
(* The ranges lo..hi (1-based) expanded in order.                           *)
Rle16Iter(rs, lo, hi) ==
    IF lo > hi THEN << >>
    ELSE IF lo = hi
    THEN [k \in 1..(rs[lo][2] - rs[lo][1] + 1) |-> rs[lo][1] + k - 1]
    ELSE LET mid == (lo + hi) \div 2
         IN  Rle16Iter(rs, lo, mid) \o Rle16Iter(rs, mid + 1, hi)

RECURSIVE Seq64Iter(_, _, _, _)
(* The set bits of the non-zero words idx[lo..hi], word by word.            *)
Seq64Iter(vec, idx, lo, hi) ==
    IF lo > hi THEN << >>
    ELSE IF lo = hi
    THEN LET w == SetToSeq(vec[idx[lo]], 0, WORD - 1)
         IN  [k \in 1..Len(w) |-> WORD * idx[lo] + w[k]]
    ELSE LET mid == (lo + hi) \div 2
         IN  Seq64Iter(vec, idx, lo, mid) \o Seq64Iter(vec, idx, mid + 1, hi)

BlockIter(b) ==
    CASE b.kind = "Seq16" -> b.vector
      [] b.kind = "Seq64" ->
           LET idx == NonZero(b.words, SEQ64)
           IN  Seq64Iter(b.words, idx, 1, Len(idx))
      [] b.kind = "Rle16" -> Rle16Iter(b.ranges, 1, Len(b.ranges))

----------------------------------------------------------------------------
(* The four pairwise operators on blocks.                                   *)

PairOps == {"intersection", "union", "difference", "symmetric_difference"}

SetOp(op, A, B) ==
    CASE op = "intersection" -> A \cap B
      [] op = "union" -> A \cup B
      [] op = "difference" -> A \ B
      [] op = "symmetric_difference" -> (A \ B) \cup (B \ A)

(* The merge of two ascending streams, same elements handled per operator.  *)
PairIter(op, s1, s2) == SetToSeq(SetOp(op, RangeOf(s1), RangeOf(s2)), 0, U16MAX)

(* Seq16 op Seq16: the merged sorted vector.                                *)
Seq16Pairwise(op, b1, b2) ==
    LET v == PairIter(op, b1.vector, b2.vector)
    IN  MkSeq16(Len(v), v)

(* Seq64 op Seq64: word by word (and, or, and-not, xor), the weight         *)
(* recounted from the words.                                                *)
Seq64Pairwise(op, b1, b2) ==
    LET qs == DOMAIN b1.words \cup DOMAIN b2.words
        ws == [q \in qs |-> SetOp(op, Word(b1.words, q), Word(b2.words, q))]
        nz == {q \in qs : ws[q] # EmptyWord}
        vec == [q \in nz |-> ws[q]]
    IN  MkSeq64(Cardinality(UNION {{<<q, r>> : r \in vec[q]} : q \in nz}), vec)

(* Rle16 op Rle16: the maximal ranges of the result.                        *)
Rle16Pairwise(op, b1, b2) == Rle16FromBits(SetOp(op, Rle16Bits(b1), Rle16Bits(b2)))

(* Seq16 &= Seq64: the left vector compacted in place to the entries the    *)
(* right block contains, then truncated; the weight is the new length.      *)
Seq16RetainKeepsWeight(b1, b2) ==
    LET Keep(v) == Seq64Contains(b2, v)
        vec == SelectSeq(b1.vector, Keep)
    IN  MkSeq16(b1.weight, vec)

Seq16Retain(b1, b2) ==
    LET Keep(v) == Seq64Contains(b2, v)
        vec == SelectSeq(b1.vector, Keep)
        weight == Len(vec)
    IN  MkSeq16(weight, vec)

RECURSIVE Seq64EachAsToggle(_, _, _, _)
(* Seq64Each toggling the bit for every operator.                           *)
Seq64EachAsToggle(op, b1, bits, n) ==
    IF n = 0 THEN b1
    ELSE LET b == Seq64EachAsToggle(op, b1, bits, n - 1)
             bit == bits[n]
         IN  IF Seq64Contains(b, bit) THEN Seq64Remove(b, bit).blk
             ELSE Seq64Insert(b, bit).blk

RECURSIVE Seq64Each(_, _, _, _)
(* Seq64 op= Seq16 / Rle16 for union, difference and symmetric difference:  *)
(* the first n bits of the right operand inserted, removed or toggled one   *)
(* by one.                                                                  *)
Seq64Each(op, b1, bits, n) ==
    IF n = 0 THEN b1
    ELSE LET b == Seq64Each(op, b1, bits, n - 1)
             bit == bits[n]
         IN  CASE op = "union" -> Seq64Insert(b, bit).blk
               [] op = "difference" -> Seq64Remove(b, bit).blk
               [] op = "symmetric_difference" ->
                    IF Seq64Contains(b, bit) THEN Seq64Remove(b, bit).blk
                    ELSE Seq64Insert(b, bit).blk

(* HasArm without the Seq64 x Rle16 arms.                                   *)
HasArmNoSeq64Rle16(op, k1, k2) ==
    \/ k1 = k2
    \/ k1 = "Seq64" /\ k2 = "Seq16"
    \/ op = "intersection" /\ k1 = "Seq16" /\ k2 = "Seq64"

(* The pairs of representations an in-place operator matches directly.      *)
HasArm(op, k1, k2) ==
    \/ k1 = k2
    \/ k1 = "Seq64"
    \/ op = "intersection" /\ k1 = "Seq16" /\ k2 = "Seq64"

(* The direct arms of the in-place operators.                               *)
DirectArm(op, this, other) ==
    CASE this.kind = "Seq16" /\ other.kind = "Seq16" -> Seq16Pairwise(op, this, other)
      [] this.kind = "Seq16" /\ other.kind = "Seq64" -> Seq16Retain(this, other)
      [] this.kind = "Seq64" /\ other.kind = "Seq64" -> Seq64Pairwise(op, this, other)
      [] this.kind = "Seq64" /\ other.kind = "Seq16" ->
           IF op = "intersection" THEN Seq64Pairwise(op, this, Seq64FromSeq16(other))
           ELSE Seq64Each(op, this, other.vector, Len(other.vector))
      [] this.kind = "Seq64" /\ other.kind = "Rle16" ->
           IF op = "intersection" THEN Seq64Pairwise(op, this, Seq64FromRle16(other))
           ELSE LET bits == Rle16Iter(other.ranges, 1, Len(other.ranges))
                IN  Seq64Each(op, this, bits, Len(bits))
      [] this.kind = "Rle16" /\ other.kind = "Rle16" -> Rle16Pairwise(op, this, other)

(* as_seq64: Seq16 and Rle16 become Seq64; on a Seq64 it is unreachable!(). *)
AsSeq64(b) ==
    CASE b.kind = "Seq16" -> [blk |-> Seq64FromSeq16(b), unreachable |-> FALSE]
      [] b.kind = "Rle16" -> [blk |-> Seq64FromRle16(b), unreachable |-> FALSE]
      [] b.kind = "Seq64" -> [blk |-> b, unreachable |-> TRUE]

RECURSIVE PairwiseWith(_, _, _, _)
(* this.op_with(other): a direct arm, or as_seq64 and the call again.      *)
(* depth counts the calls made from the fallback arm.                       *)
PairwiseWith(op, this, other, depth) ==
    IF HasArm(op, this.kind, other.kind)
    THEN [blk |-> DirectArm(op, this, other), depth |-> depth, unreachable |-> FALSE]
    ELSE LET conv == AsSeq64(this)
         IN  IF conv.unreachable
             THEN [blk |-> this, depth |-> depth, unreachable |-> TRUE]
             ELSE PairwiseWith(op, conv.blk, other, depth + 1)

RECURSIVE ExtendByU16(_, _, _)
(* extend_by_u16!: the first n items inserted into the block one by one.    *)
ExtendByU16(b, items, n) ==
    IF n = 0 THEN b
    ELSE BlockInsert(ExtendByU16(b, items, n - 1), items[n]).blk

(* collect::<Block>(): a new block extended by the items.                   *)
BlockFromIter(items) == ExtendByU16(BlockNew, items, Len(items))

(* &this op &other, the allocating operator on references.                 *)
Pairwise(op, this, other) ==
    IF this.kind = "Seq16" /\ other.kind = "Seq16"
    THEN [blk |-> BlockFromIter(PairIter(op, BlockIter(this), BlockIter(other))),
          depth |-> 0, unreachable |-> FALSE]
    ELSE IF this.kind = "Rle16" /\ other.kind = "Rle16"
    THEN [blk |-> Rle16Pairwise(op, this, other), depth |-> 0, unreachable |-> FALSE]
    ELSE PairwiseWith(op, this, other, 0)

----------------------------------------------------------------------------
(* Wide integers as limb tuples; ordered maps as functions on their keys.   *)

LimbLess(a, b) ==
    \E i \in 1..Len(a) : a[i] < b[i] /\ \A j \in 1..(i - 1) : a[j] = b[j]

(* x.split() of a u64 <<l3, l2, l1, l0>>: (x >> 32, x as u32).              *)
Split64(x) == <<SubSeq(x, 1, 2), SubSeq(x, 3, 4)>>
(* x.split() of a u32 <<hi, lo>>: (x >> 16, x as u16).                      *)
Split32(x) == <<x[1], x[2]>>
Merge32(hi, lo) == <<hi, lo>>
Merge64(hi, lo) == hi \o lo

AddWide(a, b) == IF a = Panic \/ b = Panic THEN Panic ELSE a + b

(* A u64 as a u128: four more limbs in front.                               *)
Widen(x) == <<0, 0, 0, 0>> \o x

Zero64 == <<0, 0, 0, 0>>

RECURSIVE LimbAdd(_, _)
(* a + n for limbs a and a natural n, the carry running to the front; a     *)
(* carry out of the first limb is dropped.                                  *)
LimbAdd(a, n) ==
    IF Len(a) = 0 THEN << >>
    ELSE LET s == a[Len(a)] + n
         IN  LimbAdd(SubSeq(a, 1, Len(a) - 1), s \div (U16MAX + 1)) \o <<s % (U16MAX + 1)>>

RECURSIVE LimbSub(_, _)
(* a - n for limbs a and a natural n <= 65536, the borrow running to the    *)
(* front; a borrow out of the first limb is dropped.                        *)
LimbSub(a, n) ==
    IF Len(a) = 0 THEN << >>
    ELSE LET s == a[Len(a)] - n
         IN  IF s >= 0 THEN SubSeq(a, 1, Len(a) - 1) \o <<s>>
             ELSE LimbSub(SubSeq(a, 1, Len(a) - 1), 1) \o <<s + U16MAX + 1>>

RECURSIVE LimbMinus(_, _, _)
(* a - b - borrow for limbs a, b of one length; a borrow out of the first   *)
(* limb is dropped.                                                         *)
LimbMinus(a, b, borrow) ==
    IF Len(a) = 0 THEN << >>
    ELSE LET s == a[Len(a)] - b[Len(b)] - borrow
         IN  LimbMinus(SubSeq(a, 1, Len(a) - 1), SubSeq(b, 1, Len(b) - 1),
                       IF s < 0 THEN 1 ELSE 0)
                \o <<IF s < 0 THEN s + U16MAX + 1 ELSE s>>

RECURSIVE KeysU16(_)
(* The u16 keys of a map in ascending order.                                *)
KeysU16(K) ==
    IF K = {} THEN << >>
    ELSE LET k == CHOOSE x \in K : \A y \in K : x <= y
         IN  <<k>> \o KeysU16(K \ {k})

RECURSIVE KeysU32(_)
(* The u32 keys of a map in ascending order.                                *)
KeysU32(K) ==
    IF K = {} THEN << >>
    ELSE LET k == CHOOSE x \in K : \A y \in K : x = y \/ LimbLess(x, y)
         IN  <<k>> \o KeysU32(K \ {k})

MapPut(m, k, v) == [x \in DOMAIN m \cup {k} |-> IF x = k THEN v ELSE m[x]]
MapDrop(m, K) == [x \in DOMAIN m \ K |-> m[x]]
EmptyMap == [x \in {} |-> 0]

RECURSIVE SumSeq(_, _)
SumSeq(s, n) == IF n = 0 THEN 0 ELSE AddWide(SumSeq(s, n - 1), s[n])

----------------------------------------------------------------------------
(* PopCount<T>: Ones(T) | Full. T's MAX is passed as a limb pair, so that   *)
(* u32::MAX can be written; the counts themselves are naturals.             *)

MaxOf(T) ==
    CASE T = "u8" -> <<0, 255>>
      [] T = "u16" -> <<0, U16MAX>>
      [] T = "u32" -> <<U16MAX, U16MAX>>

Limbs(n) == <<n \div (U16MAX + 1), n % (U16MAX + 1)>>

Ones(p) == [tag |-> "Ones", val |-> p]
Full == [tag |-> "Full", val |-> 0]
PopMin == Ones(0)

PopMax(T) == MaxOf(T)[1] * (U16MAX + 1) + MaxOf(T)[2]

PopCardinality(T, p) == IF p.tag = "Ones" THEN p.val ELSE PopMax(T) + 1

(* A counter together with the type it is instantiated for.                 *)
PopOf(T, p) == [type |-> T, count |-> p]

(* new(c): c is compared with MAX + 1 as u64, here on three limbs.          *)
PopNew(T, c) ==
    LET max == LimbAdd(<<0>> \o MaxOf(T), 1)
        cc == <<0>> \o Limbs(c)
    IN  IF LimbLess(max, cc) THEN (IF build = "debug" THEN Panicked ELSE Full)
        ELSE IF max = cc THEN Full
        ELSE Ones(c)

(* PopDecr leaving a Full counter as it is.                                 *)
PopDecrFullStays(T, p) ==
    IF p.tag = "Ones"
    THEN IF p.val > 0 THEN Ones(p.val - 1)
         ELSE IF build = "debug" THEN Panicked ELSE p
    ELSE p

(* incr/decr give the new counter, or Panicked where a debug_assert fires   *)
(* in a debug build; a counter that has panicked stays so.                  *)
PopIncr(T, p) ==
    IF p.tag = "Ones"
    THEN IF LimbLess(Limbs(p.val), MaxOf(T)) THEN Ones(p.val + 1) ELSE Full
    ELSE IF build = "debug" /\ p.tag = "Full" THEN Panicked ELSE p

PopDecr(T, p) ==
    IF p.tag = "Ones"
    THEN IF p.val > 0 THEN Ones(p.val - 1)
         ELSE IF build = "debug" THEN Panicked ELSE p
    ELSE IF p.tag = "Full" THEN Ones(PopMax(T)) ELSE p

----------------------------------------------------------------------------
(* Vec32: the map of blocks for a 32-bit universe, keyed by the high u16.   *)

Vec32New == [vec16s |-> EmptyMap]

Vec32CountOnes(v) ==
    LET ks == KeysU16(DOMAIN v.vec16s)
    IN  SumSeq([n \in 1..Len(ks) |-> Count1(v.vec16s[ks[n]])], Len(ks))

Vec32Contains(v, x) ==
    LET key == Split32(x)[1]
        bit == Split32(x)[2]
    IN  key \in DOMAIN v.vec16s /\ BlockContains(v.vec16s[key], bit)

Vec32Insert(v, x) ==
    LET key == Split32(x)[1]
        bit == Split32(x)[2]
        bv == IF key \in DOMAIN v.vec16s THEN v.vec16s[key] ELSE BlockNew
        r == BlockInsert(bv, bit)
    IN  [ok |-> r.ok, vec |-> [vec16s |-> MapPut(v.vec16s, key, r.blk)]]

Vec32Remove(v, x) ==
    LET key == Split32(x)[1]
        bit == Split32(x)[2]
    IN  IF key \in DOMAIN v.vec16s
        THEN LET r == BlockRemove(v.vec16s[key], bit)
             IN  [ok |-> r.ok, vec |-> [vec16s |-> MapPut(v.vec16s, key, r.blk)]]
        ELSE [ok |-> FALSE, vec |-> v]

Vec32Optimize(v) ==
    LET opt == [k \in DOMAIN v.vec16s |-> Optimize(v.vec16s[k])]
        rs == {k \in DOMAIN opt : Count1(opt[k]) = 0}
    IN  [vec16s |-> MapDrop(opt, rs)]

(* The map layer's block rank: the set bits in [0, i], i itself included    *)
(* (the block layer's rank1 counts [0, i)).                                 *)
Vec16Rank1(b, i) == AddWide(Rank1(b, i), IF BlockContains(b, i) THEN 1 ELSE 0)

(* The full weights of the blocks with a key below hi, plus the rank of lo  *)
(* in the block of hi if there is one.                                      *)
Vec32Rank1(v, i) ==
    LET hi == Split32(i)[1]
        lo == Split32(i)[2]
        ks == KeysU16({k \in DOMAIN v.vec16s : k <= hi})
    IN  SumSeq([n \in 1..Len(ks) |->
                   IF ks[n] = hi THEN Vec16Rank1(v.vec16s[hi], lo)
                   ELSE Count1(v.vec16s[ks[n]])], Len(ks))

(* Scan the blocks in key order, subtracting each weight from the count     *)
(* until the target block is found; its select1 is unwrapped.               *)
Vec32Select1(v, c) ==
    LET ks == KeysU16(DOMAIN v.vec16s)
        F[n \in 0..Len(ks)] ==
            IF n = 0 THEN Running(c)
            ELSE LET st == F[n - 1]
                     w == Count1(v.vec16s[ks[n]])
                 IN  IF st.done THEN st
                     ELSE IF st.curr >= w THEN Running(st.curr - w)
                     ELSE LET s == Select1(v.vec16s[ks[n]], st.curr)
                          IN  IF s.tag = "Some"
                              THEN Return(Some(Merge32(ks[n], s.val)))
                              ELSE Return(Panicked)
    IN  F[Len(ks)].ret

(* 2^32 - count_ones, as three limbs.                                       *)
Vec32CountZeros(v) == LimbSub(<<1, 0, 0>>, Vec32CountOnes(v))

(* The same scan by zero counts over the blocks present; c is a u32 as two  *)
(* limbs. The base is 0 for key 0 and (key - 1) << 16 otherwise.            *)
Vec32Select0(v, c) ==
    LET ks == KeysU16(DOMAIN v.vec16s)
        F[n \in 0..Len(ks)] ==
            IF n = 0 THEN Running(c)
            ELSE LET st == F[n - 1]
                     w == Count0(v.vec16s[ks[n]])
                 IN  IF st.done THEN st
                     ELSE IF st.curr[1] > 0 \/ st.curr[2] >= w
                     THEN Running(LimbSub(st.curr, w))
                     ELSE LET s == Select0(v.vec16s[ks[n]], st.curr[2])
                              k == IF ks[n] = 0 THEN 0 ELSE ks[n] - 1
                          IN  IF s.tag = "Some"
                              THEN Return(Some(<<k, s.val>>))
                              ELSE Return(Panicked)
    IN  F[Len(ks)].ret

Vec32Iter(v) ==
    LET ks == KeysU16(DOMAIN v.vec16s)
        F[n \in 0..Len(ks)] ==
            IF n = 0 THEN << >>
            ELSE LET it == BlockIter(v.vec16s[ks[n]])
                 IN  F[n - 1] \o [k \in 1..Len(it) |-> Merge32(ks[n], it[k])]
    IN  F[Len(ks)]

----------------------------------------------------------------------------
(* Vec64: the map of Vec32 for a 64-bit universe, keyed by the high u32.    *)

Vec64New == [vec32s |-> EmptyMap]

Vec64CountOnes(v) ==
    LET ks == KeysU32(DOMAIN v.vec32s)
    IN  SumSeq([n \in 1..Len(ks) |-> Vec32CountOnes(v.vec32s[ks[n]])], Len(ks))

(* Vec64Optimize dropping the entries of weight one as well.                *)
Vec64OptimizeDropsSingles(v) ==
    LET opt == [k \in DOMAIN v.vec32s |-> Vec32Optimize(v.vec32s[k])]
        rs == {k \in DOMAIN opt : Vec32CountOnes(opt[k]) <= 1}
    IN  [vec32s |-> MapDrop(opt, rs)]

(* Vec64Optimize keeping the entries that hold no element.                  *)
Vec64OptimizeKeepsEmpty(v) ==
    LET opt == [k \in DOMAIN v.vec32s |-> Vec32Optimize(v.vec32s[k])]
        rs == {}
    IN  [vec32s |-> MapDrop(opt, rs)]

Vec64Optimize(v) ==
    LET opt == [k \in DOMAIN v.vec32s |-> Vec32Optimize(v.vec32s[k])]
        rs == {k \in DOMAIN opt : Vec32CountOnes(opt[k]) = 0}
    IN  [vec32s |-> MapDrop(opt, rs)]

(* Vec64Contains with a missing key reading as present.                     *)
Vec64ContainsMissingKey(v, x) ==
    LET key == Split64(x)[1]
        bit == Split64(x)[2]
    IN  IF key \in DOMAIN v.vec32s THEN Vec32Contains(v.vec32s[key], bit) ELSE TRUE

Vec64Contains(v, x) ==
    LET key == Split64(x)[1]
        bit == Split64(x)[2]
    IN  IF key \in DOMAIN v.vec32s THEN Vec32Contains(v.vec32s[key], bit) ELSE FALSE

(* Vec64Insert reporting an insertion whether or not the bit was absent.    *)
Vec64InsertAlwaysTrue(v, x) ==
    LET key == Split64(x)[1]
        bit == Split64(x)[2]
        bv == IF key \in DOMAIN v.vec32s THEN v.vec32s[key] ELSE Vec32New
        r == Vec32Insert(bv, bit)
    IN  [ok |-> TRUE, vec |-> [vec32s |-> MapPut(v.vec32s, key, r.vec)]]

Vec64Insert(v, x) ==
    LET key == Split64(x)[1]
        bit == Split64(x)[2]
        bv == IF key \in DOMAIN v.vec32s THEN v.vec32s[key] ELSE Vec32New
        r == Vec32Insert(bv, bit)
    IN  [ok |-> r.ok, vec |-> [vec32s |-> MapPut(v.vec32s, key, r.vec)]]

Vec64Remove(v, x) ==
    LET key == Split64(x)[1]
        bit == Split64(x)[2]
    IN  IF key \in DOMAIN v.vec32s
        THEN LET r == Vec32Remove(v.vec32s[key], bit)
             IN  [ok |-> r.ok, vec |-> [vec32s |-> MapPut(v.vec32s, key, r.vec)]]
        ELSE [ok |-> FALSE, vec |-> v]

Vec64Iter(v) ==
    LET ks == KeysU32(DOMAIN v.vec32s)
        F[n \in 0..Len(ks)] ==
            IF n = 0 THEN << >>
            ELSE LET it == Vec32Iter(v.vec32s[ks[n]])
                 IN  F[n - 1] \o [k \in 1..Len(it) |-> Merge64(ks[n], it[k])]
    IN  F[Len(ks)]

(* Vec64Rank1 adding the full weight of the entry of hi itself.             *)
Vec64Rank1WholeEntry(v, i) ==
    LET hi == Split64(i)[1]
        ks == KeysU32(DOMAIN v.vec32s)
        F[n \in 0..Len(ks)] ==
            IF n = 0 THEN [rank |-> 0, brk |-> FALSE]
            ELSE LET st == F[n - 1]
                     key == ks[n]
                 IN  IF st.brk THEN st
                     ELSE IF LimbLess(hi, key) THEN [st EXCEPT !.brk = TRUE]
                     ELSE [rank |-> AddWide(st.rank, Vec32CountOnes(v.vec32s[key])),
                           brk |-> FALSE]
    IN  F[Len(ks)].rank

(* The loop of rank1 over the entries in key order, with its two breaks.    *)
Vec64Rank1(v, i) ==
    LET hi == Split64(i)[1]
        lo == Split64(i)[2]
        ks == KeysU32(DOMAIN v.vec32s)
        F[n \in 0..Len(ks)] ==
            IF n = 0 THEN [rank |-> 0, brk |-> FALSE]
            ELSE LET st == F[n - 1]
                     key == ks[n]
                 IN  IF st.brk THEN st
                     ELSE IF LimbLess(hi, key) THEN [st EXCEPT !.brk = TRUE]
                     ELSE IF key = hi
                     THEN [rank |-> AddWide(st.rank, Vec32Rank1(v.vec32s[key], lo)),
                           brk |-> TRUE]
                     ELSE [rank |-> AddWide(st.rank, Vec32CountOnes(v.vec32s[key])),
                           brk |-> FALSE]
    IN  F[Len(ks)].rank

(* rank0: 0 at i = 0, else i + 1 - rank1(i) in u128.                        *)
Vec64Rank0(v, i) ==
    IF i = Zero64 THEN Widen(Zero64)
    ELSE LET rank1 == Vec64Rank1(v, i)
         IN  LimbSub(LimbAdd(Widen(i), 1), rank1)

(* Vec64Select1 going into an entry whose weight equals the remaining count. *)
Vec64Select1Late(v, c) ==
    LET ks == KeysU32(DOMAIN v.vec32s)
        F[n \in 0..Len(ks)] ==
            IF n = 0 THEN Running(c)
            ELSE LET st == F[n - 1]
                     w == Vec32CountOnes(v.vec32s[ks[n]])
                 IN  IF st.done THEN st
                     ELSE IF st.curr > w THEN Running(st.curr - w)
                     ELSE LET s == Vec32Select1(v.vec32s[ks[n]], st.curr)
                          IN  IF s.tag = "Some"
                              THEN Return(Some(Merge64(ks[n], s.val)))
                              ELSE Return(Panicked)
    IN  F[Len(ks)].ret

(* The loop of select1 over the entries in key order; st.curr is `rem`.     *)
Vec64Select1(v, c) ==
    LET ks == KeysU32(DOMAIN v.vec32s)
        F[n \in 0..Len(ks)] ==
            IF n = 0 THEN Running(c)
            ELSE LET st == F[n - 1]
                     w == Vec32CountOnes(v.vec32s[ks[n]])
                 IN  IF st.done THEN st
                     ELSE IF st.curr >= w THEN Running(st.curr - w)
                     ELSE LET s == Vec32Select1(v.vec32s[ks[n]], st.curr)
                          IN  IF s.tag = "Some"
                              THEN Return(Some(Merge64(ks[n], s.val)))
                              ELSE Return(Panicked)
    IN  F[Len(ks)].ret

(* The loop of select0 over the entries present, in key order; st.curr is   *)
(* `rem` as three limbs, c a count below 2^16.                              *)
Vec64Select0(v, c) ==
    LET ks == KeysU32(DOMAIN v.vec32s)
        F[n \in 0..Len(ks)] ==
            IF n = 0 THEN Running(<<0, 0, c>>)
            ELSE LET st == F[n - 1]
                     w == Vec32CountZeros(v.vec32s[ks[n]])
                 IN  IF st.done THEN st
                     ELSE IF ~LimbLess(st.curr, w)
                     THEN Running(LimbMinus(st.curr, w, 0))
                     ELSE LET s == Vec32Select0(v.vec32s[ks[n]], SubSeq(st.curr, 2, 3))
                              k == IF ks[n] = <<0, 0>> THEN <<0, 0>> ELSE LimbSub(ks[n], 1)
                          IN  IF s.tag = "Some"
                              THEN Return(Some(k \o s.val))
                              ELSE Return(Panicked)
    IN  F[Len(ks)].ret

----------------------------------------------------------------------------
(* BitMap: a map of buckets for a 32-bit universe with its own counter.     *)

BucketWithCapacity == BlockNew

BitMapNew == [pop |-> PopMin, map |-> EmptyMap]

BitMapOnes(m) == IF m.pop.tag = "Panic" THEN Panic ELSE PopCardinality("u32", m.pop)

BitMapContains(m, x) ==
    LET hi == Split32(x)[1]
        lo == Split32(x)[2]
    IN  IF hi \in DOMAIN m.map THEN BlockContains(m.map[hi], lo) ELSE FALSE

(* BitMapInsert counting every call, not only the ones that set a bit.      *)
BitMapInsertCountsAll(m, x) ==
    LET hi == Split32(x)[1]
        lo == Split32(x)[2]
        bucket == IF hi \in DOMAIN m.map THEN m.map[hi] ELSE BucketWithCapacity
        r == BlockInsert(bucket, lo)
    IN  [ok |-> r.ok,
         bm |-> [pop |-> PopIncr("u32", m.pop),
                 map |-> MapPut(m.map, hi, r.blk)]]

BitMapInsert(m, x) ==
    LET hi == Split32(x)[1]
        lo == Split32(x)[2]
        bucket == IF hi \in DOMAIN m.map THEN m.map[hi] ELSE BucketWithCapacity
        r == BlockInsert(bucket, lo)
    IN  [ok |-> r.ok,
         bm |-> [pop |-> IF r.ok THEN PopIncr("u32", m.pop) ELSE m.pop,
                 map |-> MapPut(m.map, hi, r.blk)]]

(* BitMapRemove leaving the pop counter as it is.                           *)
BitMapRemoveKeepsPop(m, x) ==
    LET hi == Split32(x)[1]
        lo == Split32(x)[2]
    IN  IF hi \in DOMAIN m.map
        THEN LET r == BlockRemove(m.map[hi], lo)
             IN  [ok |-> r.ok,
                  bm |-> [pop |-> m.pop, map |-> MapPut(m.map, hi, r.blk)]]
        ELSE [ok |-> FALSE, bm |-> m]

BitMapRemove(m, x) ==
    LET hi == Split32(x)[1]
        lo == Split32(x)[2]
    IN  IF hi \in DOMAIN m.map
        THEN LET r == BlockRemove(m.map[hi], lo)
             IN  [ok |-> r.ok,
                  bm |-> [pop |-> IF r.ok THEN PopDecr("u32", m.pop) ELSE m.pop,
                          map |-> MapPut(m.map, hi, r.blk)]]
        ELSE [ok |-> FALSE, bm |-> m]

----------------------------------------------------------------------------
(* The state machine. `target` is the object under test, `build` the build  *)
(* profile (it decides what a u16 overflow does). `abs` is the set of       *)
(* elements whose most recent insert/remove was an insert, `shadow` the     *)
(* same object driven by the same calls with every optimize left out,       *)
(* `last` the most recent call with its result and `prev` what was          *)
(* observable before that call. In SpecBlock no insert or remove is called  *)
(* and `shadow` stays a new block. `that` is the right operand of the       *)
(* pairwise operators; it is a new block wherever they are not called.      *)
(* `pop` is a PopCount<T> on its own with its type; it is MIN wherever its  *)
(* operations are not called.                                               *)

NumBits == 4
NumU64 == 4
NumU32 == 4

BitList == <<0, 1, 65535, 2, 64, 3>>
U64List == << <<0, 2, 0, 0>>, <<0, 2, 0, 1>>, <<0, 4, 0, 0>>, <<4, 0, 0, 0>>,
              <<0, 2, 0, 2>>, <<0, 2, 1, 0>>, <<0, 0, 0, 0>> >>
U32List == << <<0, 0>>, <<0, 1>>, <<1, 0>>, <<0, 65535>>, <<1, 65535>> >>

Bits16 == {BitList[n] : n \in 1..Min(NumBits, Len(BitList))}
U64s == {U64List[n] : n \in 1..Min(NumU64, Len(U64List))}
U32s == {U32List[n] : n \in 1..Min(NumU32, Len(U32List))}

Builds == {"debug", "release"}

Mutators == {"insert", "remove"}

(* What was observable of a new object.                                     *)
NoObs == [set |-> {}, ones |-> 0, keys |-> {}]

(* A call record: the operation, its argument, its boolean result, its      *)
(* numeric or optional result, and, when it is an insert/remove of the very *)
(* element the previous call inserted/removed, that previous call, its      *)
(* result and what was observable before it.                                *)
Call(op, x, ret, out) ==
    LET same == op \in Mutators /\ last.op \in Mutators /\ last.x = x
    IN  [op |-> op, x |-> x, ret |-> ret, out |-> out,
         after |-> IF same THEN last.op ELSE "none",
         afterRet |-> IF same THEN last.ret ELSE FALSE,
         before |-> IF same THEN prev ELSE NoObs]

NoCall ==
    [op |-> "new", x |-> 0, ret |-> FALSE, out |-> 0,
     after |-> "none", afterRet |-> FALSE, before |-> NoObs]

Elems ==
    CASE target = "block" -> Bits16
      [] target = "vec64" -> U64s
      [] target = "bitmap" -> U32s

Vec64Keys(v) ==
    {<<k, 0 - 1>> : k \in DOMAIN v.vec32s}
        \cup UNION {{<<k, j>> : j \in DOMAIN v.vec32s[k].vec16s} : k \in DOMAIN v.vec32s}

(* What a caller can observe of the object under test.                      *)
ObsContains(x) ==
    CASE target = "block" -> BlockContains(block, x)
      [] target = "vec64" -> Vec64Contains(vec64, x)
      [] target = "bitmap" -> BitMapContains(bitmap, x)

ObsOnes ==
    CASE target = "block" -> Count1(block)
      [] target = "vec64" -> Vec64CountOnes(vec64)
      [] target = "bitmap" -> BitMapOnes(bitmap)

ObsKeys ==
    CASE target = "block" -> {}
      [] target = "vec64" -> Vec64Keys(vec64)
      [] target = "bitmap" -> DOMAIN bitmap.map

Obs == [set |-> {x \in Elems : ObsContains(x)}, ones |-> ObsOnes, keys |-> ObsKeys]

Init ==
    /\ target \in {"block", "vec64", "bitmap"}
    /\ build \in Builds
    /\ block = BlockNew
    /\ that = BlockNew
    /\ pop = PopOf("u32", PopMin)
    /\ vec64 = Vec64New
    /\ bitmap = BitMapNew
    /\ shadow = (CASE target = "block" -> BlockNew
                   [] target = "vec64" -> Vec64New
                   [] target = "bitmap" -> BitMapNew)
    /\ abs = {}
    /\ last = NoCall
    /\ prev = NoObs

DoBlockInsert(bit) ==
    /\ target = "block"
    /\ LET r == BlockInsert(block, bit)
       IN  /\ block' = r.blk
           /\ last' = Call("insert", bit, r.ok, 0)
    /\ shadow' = BlockInsert(shadow, bit).blk
    /\ abs' = abs \cup {bit}
    /\ prev' = Obs
    /\ UNCHANGED <<target, build, that, pop, vec64, bitmap>>

DoBlockRemove(bit) ==
    /\ target = "block"
    /\ LET r == BlockRemove(block, bit)
       IN  /\ block' = r.blk
           /\ last' = Call("remove", bit, r.ok, 0)
    /\ shadow' = BlockRemove(shadow, bit).blk
    /\ abs' = abs \ {bit}
    /\ prev' = Obs
    /\ UNCHANGED <<target, build, that, pop, vec64, bitmap>>

DoBlockOptimize ==
    /\ target = "block"
    /\ block' = Optimize(block)
    /\ last' = Call("optimize", 0, FALSE, 0)
    /\ prev' = Obs
    /\ UNCHANGED <<target, build, that, pop, vec64, bitmap, shadow, abs>>

DoVec64Insert(x) ==
    /\ target = "vec64"
    /\ LET r == Vec64Insert(vec64, x)
       IN  /\ vec64' = r.vec
           /\ last' = Call("insert", x, r.ok, 0)
    /\ shadow' = Vec64Insert(shadow, x).vec
    /\ abs' = abs \cup {x}
    /\ prev' = Obs
    /\ UNCHANGED <<target, build, that, pop, block, bitmap>>

DoVec64Remove(x) ==
    /\ target = "vec64"
    /\ LET r == Vec64Remove(vec64, x)
       IN  /\ vec64' = r.vec
           /\ last' = Call("remove", x, r.ok, 0)
    /\ shadow' = Vec64Remove(shadow, x).vec
    /\ abs' = abs \ {x}
    /\ prev' = Obs
    /\ UNCHANGED <<target, build, that, pop, block, bitmap>>

DoVec64Optimize ==
    /\ target = "vec64"
    /\ vec64' = Vec64Optimize(vec64)
    /\ last' = Call("optimize", 0, FALSE, 0)
    /\ prev' = Obs
    /\ UNCHANGED <<target, build, that, pop, block, bitmap, shadow, abs>>

DoVec64Rank1(i) ==
    /\ target = "vec64"
    /\ last' = Call("rank1", i, FALSE, Vec64Rank1(vec64, i))
    /\ prev' = Obs
    /\ UNCHANGED <<target, build, that, pop, block, vec64, bitmap, shadow, abs>>

(* The arguments rank0 and select0 are called with: position 0 and a       *)
(* position above it; the first and the second zero.                        *)
Rank0Args == {Zero64, U64List[1]}
Select0Args == {0, 1}

DoVec64Rank0(i) ==
    /\ target = "vec64"
    /\ last' = Call("rank0", i, FALSE, Vec64Rank0(vec64, i))
    /\ prev' = Obs
    /\ UNCHANGED <<target, build, that, pop, block, vec64, bitmap, shadow, abs>>

DoVec64Select1(c) ==
    /\ target = "vec64"
    /\ last' = Call("select1", c, FALSE, Vec64Select1(vec64, c))
    /\ prev' = Obs
    /\ UNCHANGED <<target, build, that, pop, block, vec64, bitmap, shadow, abs>>

DoVec64Select0(c) ==
    /\ target = "vec64"
    /\ last' = Call("select0", c, FALSE, Vec64Select0(vec64, c))
    /\ prev' = Obs
    /\ UNCHANGED <<target, build, that, pop, block, vec64, bitmap, shadow, abs>>

DoBitMapInsert(x) ==
    /\ target = "bitmap"
    /\ LET r == BitMapInsert(bitmap, x)
       IN  /\ bitmap' = r.bm
           /\ last' = Call("insert", x, r.ok, 0)
    /\ shadow' = BitMapInsert(shadow, x).bm
    /\ abs' = abs \cup {x}
    /\ prev' = Obs
    /\ UNCHANGED <<target, build, that, pop, block, vec64>>

DoBitMapRemove(x) ==
    /\ target = "bitmap"
    /\ LET r == BitMapRemove(bitmap, x)
       IN  /\ bitmap' = r.bm
           /\ last' = Call("remove", x, r.ok, 0)
    /\ shadow' = BitMapRemove(shadow, x).bm
    /\ abs' = abs \ {x}
    /\ prev' = Obs
    /\ UNCHANGED <<target, build, that, pop, block, vec64>>

Next ==
    \/ \E bit \in Bits16 : DoBlockInsert(bit)
    \/ \E bit \in Bits16 : DoBlockRemove(bit)
    \/ DoBlockOptimize
    \/ \E x \in U64s : DoVec64Insert(x)
    \/ \E x \in U64s : DoVec64Remove(x)
    \/ DoVec64Optimize
    \/ \E i \in U64s : DoVec64Rank1(i)
    \/ \E i \in Rank0Args : DoVec64Rank0(i)
    \/ \E c \in 0..NumU64 : DoVec64Select1(c)
    \/ \E c \in Select0Args : DoVec64Select0(c)
    \/ \E x \in U32s : DoBitMapInsert(x)
    \/ \E x \in U32s : DoBitMapRemove(x)

Spec == Init /\ [][Next]_vars

----------------------------------------------------------------------------
(* Blocks at the boundaries: a set of u16 held in each representation, and  *)
(* optimize, rank1 and select1 applied to it.                               *)

Kinds == {"Seq16", "Seq64", "Rle16"}

Reshape(kind, S) ==
    CASE kind = "Seq16" -> Seq16FromBits(S)
      [] kind = "Seq64" -> Seq64FromBits(S)
      [] kind = "Rle16" -> Rle16FromBits(S)

BoundarySets ==
    { {}, {0}, {U16MAX}, {0, 1}, {0, 1, U16MAX},
      0..U16MAX,
      1000..60000,
      {2 * k : k \in 0..(SEQ16 - 1)},
      {2 * k : k \in 0..SEQ16},
      {4 * k : k \in 0..(SEQ16 \div 2 - 1)} \cup {4 * k + 1 : k \in 0..(SEQ16 \div 2 - 1)} }

RankArgs == {0, 1, 1000, 8190, 60001, U16MAX}
SelectArgs == {0, 1, SEQ16 - 1, SEQ16, 59000, U16MAX}

InitBlock ==
    /\ target = "block"
    /\ build \in Builds
    /\ abs \in BoundarySets
    /\ \E kind \in Kinds : block = Reshape(kind, abs)
    /\ shadow = BlockNew
    /\ that = BlockNew
    /\ pop = PopOf("u32", PopMin)
    /\ vec64 = Vec64New
    /\ bitmap = BitMapNew
    /\ last = NoCall
    /\ prev = NoObs

DoBlockRank1(i) ==
    /\ target = "block"
    /\ last' = Call("rank1", i, FALSE, Rank1(block, i))
    /\ prev' = Obs
    /\ UNCHANGED <<target, build, that, pop, block, vec64, bitmap, shadow, abs>>

DoBlockSelect1(c) ==
    /\ target = "block"
    /\ last' = Call("select1", c, FALSE, Select1(block, c))
    /\ prev' = Obs
    /\ UNCHANGED <<target, build, that, pop, block, vec64, bitmap, shadow, abs>>

NextBlock ==
    \/ DoBlockOptimize
    \/ \E i \in RankArgs : DoBlockRank1(i)
    \/ \E c \in SelectArgs : DoBlockSelect1(c)

SpecBlock == InitBlock /\ [][NextBlock]_vars

----------------------------------------------------------------------------
(* The optimize decision as a pure function of the representation, the      *)
(* weight n and the number of runs r: the inputs are drawn from a grid of   *)
(* weights over the whole of 0..CAPACITY and, for each weight, the run      *)
(* counts at and next to every point where one of the comparisons flips,    *)
(* kept when a set of n elements in r runs exists (r runs need r - 1 gaps). *)

WeightStride == 16

RuleWeights ==
    {n \in 0..CAPACITY : n % WeightStride \in {0, 1, WeightStride - 1}}
        \cup 0..16 \cup (SEQ16 - 8)..(SEQ16 + 8)

Feasible(n, r) ==
    \/ n = 0 /\ r = 0
    \/ 1 <= r /\ r <= n /\ n + r - 1 <= CAPACITY

RuleRuns(n) ==
    {r \in {0, 1, 2, n \div 2 - 1, n \div 2, n \div 2 + 1, n - 1, n,
            2 * SEQ64 - 1, 2 * SEQ64, 2 * SEQ64 + 1, CAPACITY - n, CAPACITY - n + 1} :
        Feasible(n, r)}

RuleInput(kind, n, r) == [NoCall EXCEPT !.op = "rule", !.x = <<kind, n, r>>]

InitRule ==
    /\ target = "block"
    /\ build = "release"
    /\ block = BlockNew
    /\ that = BlockNew
    /\ pop = PopOf("u32", PopMin)
    /\ shadow = BlockNew
    /\ vec64 = Vec64New
    /\ bitmap = BitMapNew
    /\ abs = {}
    /\ prev = NoObs
    /\ \E kind \in Kinds : \E n \in RuleWeights : \E r \in RuleRuns(n) :
          last = RuleInput(kind, n, r)

DoOptimizeKind ==
    /\ last.op = "rule"
    /\ last' = [last EXCEPT !.op = "optimize_kind",
                            !.out = OptimizeKind(last.x[1], last.x[2], last.x[3])]
    /\ UNCHANGED <<target, build, that, pop, block, vec64, bitmap, shadow, abs, prev>>

NextRule == DoOptimizeKind

SpecRule == InitRule /\ [][NextRule]_vars

----------------------------------------------------------------------------
(* A PopCount<T> on its own: `pop` is the counter and its type. It starts   *)
(* as MIN, new(c) replaces it by a fresh counter, incr and decr step it.    *)
(* `last.out` keeps, for the counter made by the last new, what it was      *)
(* before the call and before the call preceding it (MIN where there was    *)
(* none), the argument of that new, the incr and decr calls since, and      *)
(* whether every call was within its contract (new with c <= MAX + 1, no    *)
(* incr at Full, no decr at Ones(0)).                                       *)

MaxCalls == 4

PopTypes == {"u8", "u16", "u32"}

(* The arguments of new: every count of a u8 and the one above, the counts  *)
(* next to 0, 2^8 and 2^16 of a u16 and the one above, counts of a u32      *)
(* next to 0 and 2^16.                                                      *)
NewArgs(T) ==
    CASE T = "u8" -> 0..257
      [] T = "u16" -> {0, 1, 2, 255, 256, 257, U16MAX - 1, U16MAX, U16MAX + 1, U16MAX + 2}
      [] T = "u32" -> {0, 1, 2, U16MAX - 1, U16MAX, U16MAX + 1, U16MAX + 2}

PopFits(T, c) == ~LimbLess(LimbAdd(<<0>> \o MaxOf(T), 1), <<0>> \o Limbs(c))

PopCall(op, c, h) ==
    [NoCall EXCEPT !.op = op, !.x = c, !.out = h,
                   !.after = IF op = "new" THEN "none" ELSE last.op]

InitPop ==
    /\ target = "pop"
    /\ build \in Builds
    /\ block = BlockNew
    /\ that = BlockNew
    /\ shadow = BlockNew
    /\ vec64 = Vec64New
    /\ bitmap = BitMapNew
    /\ abs = {}
    /\ prev = NoObs
    /\ \E T \in PopTypes : pop = PopOf(T, PopMin)
    /\ last = [NoCall EXCEPT !.op = "MIN",
                             !.out = [before |-> PopMin, before2 |-> PopMin, start |-> 0,
                                      incrs |-> 0, decrs |-> 0, clean |-> TRUE]]

DoPopNew(c) ==
    /\ target = "pop"
    /\ pop' = PopOf(pop.type, PopNew(pop.type, c))
    /\ last' = PopCall("new", c,
                       [before |-> PopMin, before2 |-> PopMin, start |-> c,
                        incrs |-> 0, decrs |-> 0, clean |-> PopFits(pop.type, c)])
    /\ UNCHANGED <<target, build, that, block, vec64, bitmap, shadow, abs, prev>>

DoPopIncr ==
    /\ target = "pop"
    /\ last.out.incrs + last.out.decrs < MaxCalls
    /\ pop' = PopOf(pop.type, PopIncr(pop.type, pop.count))
    /\ last' = PopCall("incr", last.x,
                       [last.out EXCEPT !.before = pop.count, !.before2 = last.out.before,
                                        !.incrs = @ + 1,
                                        !.clean = @ /\ pop.count.tag = "Ones"])
    /\ UNCHANGED <<target, build, that, block, vec64, bitmap, shadow, abs, prev>>

DoPopDecr ==
    /\ target = "pop"
    /\ last.out.incrs + last.out.decrs < MaxCalls
    /\ pop' = PopOf(pop.type, PopDecr(pop.type, pop.count))
    /\ last' = PopCall("decr", last.x,
                       [last.out EXCEPT !.before = pop.count, !.before2 = last.out.before,
                                        !.decrs = @ + 1,
                                        !.clean = @ /\ pop.count # Ones(0)
                                                    /\ pop.count.tag # "Panic"])
    /\ UNCHANGED <<target, build, that, block, vec64, bitmap, shadow, abs, prev>>

NextPop ==
    \/ \E c \in NewArgs(pop.type) : DoPopNew(c)
    \/ DoPopIncr
    \/ DoPopDecr

SpecPop == InitPop /\ [][NextPop]_vars

----------------------------------------------------------------------------
(* Pairs of blocks: two sets of u16, each held in each representation, and  *)
(* the pairwise operators applied to them, in place (`block` is the left    *)
(* operand and takes the result, `abs` follows it) and allocating (the      *)
(* operands are left alone). `that` is the right operand.                   *)

PairSets == { {}, {0, 1, 2, 3}, {2, 3, 4, 5}, {1, WORD, U16MAX} }

PairCall(op, form, r) ==
    Call(op, 0, FALSE,
         [form |-> form, blk |-> r.blk, depth |-> r.depth, unreachable |-> r.unreachable,
          kinds |-> <<block.kind, that.kind>>,
          left |-> abs, right |-> BlockBits(that)])

InitPair ==
    /\ target = "block"
    /\ build \in Builds
    /\ abs \in PairSets
    /\ \E kind \in Kinds : block = Reshape(kind, abs)
    /\ \E kind \in Kinds : \E B \in PairSets : that = Reshape(kind, B)
    /\ pop = PopOf("u32", PopMin)
    /\ shadow = BlockNew
    /\ vec64 = Vec64New
    /\ bitmap = BitMapNew
    /\ last = NoCall
    /\ prev = NoObs

DoPairwiseWith(op) ==
    /\ target = "block"
    /\ LET r == PairwiseWith(op, block, that, 0)
       IN  /\ block' = r.blk
           /\ last' = PairCall(op, "in-place", r)
    /\ abs' = SetOp(op, abs, BlockBits(that))
    /\ UNCHANGED <<target, build, that, pop, vec64, bitmap, shadow, prev>>

DoPairwise(op) ==
    /\ target = "block"
    /\ last' = PairCall(op, "allocating", Pairwise(op, block, that))
    /\ UNCHANGED <<target, build, that, pop, block, vec64, bitmap, shadow, abs, prev>>

NextPair ==
    \/ \E op \in PairOps : DoPairwiseWith(op)
    \/ \E op \in PairOps : DoPairwise(op)

SpecPair == InitPair /\ [][NextPair]_vars

----------------------------------------------------------------------------
(* The shadow object's observables (the same calls, optimize left out).     *)

ShadowContains(x) ==
    CASE target = "block" -> BlockContains(shadow, x)
      [] target = "vec64" -> Vec64Contains(shadow, x)
      [] target = "bitmap" -> BitMapContains(shadow, x)

ShadowOnes ==
    CASE target = "block" -> Count1(shadow)
      [] target = "vec64" -> Vec64CountOnes(shadow)
      [] target = "bitmap" -> BitMapOnes(shadow)

ObsIter ==
    CASE target = "block" -> BlockIter(block)
      [] target = "vec64" -> Vec64Iter(vec64)
      [] target = "bitmap" -> << >>

ShadowIter ==
    CASE target = "block" -> BlockIter(shadow)
      [] target = "vec64" -> Vec64Iter(shadow)
      [] target = "bitmap" -> << >>

(* Some block of the Vec64 has left the default Seq64 representation.       *)
Vec64Reshaped ==
    \E k \in DOMAIN vec64.vec32s :
        \E j \in DOMAIN vec64.vec32s[k].vec16s :
            vec64.vec32s[k].vec16s[j].kind # "Seq64"

----------------------------------------------------------------------------
(* C1: after any sequence of insert, remove and optimize calls on a block,  *)
(* a Vec64 or a BitMap, contains(x) is true exactly when the most recent    *)
(* insert or remove applied to x was an insert (false if x was never        *)
(* inserted, and false when no block exists for x's key).                   *)
C1_ContainsIsLastInsert == \A x \in Elems : ObsContains(x) <=> x \in abs

(* An element removed again from a Vec64 whose blocks optimize reshaped,    *)
(* with another element still present.                                      *)
C1_Witness ==
    /\ target = "vec64"
    /\ last.op = "remove"
    /\ last.ret
    /\ Vec64Reshaped
    /\ abs # {}
    /\ ~ObsContains(last.x)

(* C2: insert(x) returns true exactly when x was absent; a second insert(x) *)
(* right after the first returns false and leaves the state (contents,      *)
(* count_ones, block keys) unchanged.                                       *)
C2_InsertTwice ==
    last.op = "insert" =>
        /\ last.ret = (last.x \notin prev.set)
        /\ last.after = "insert" => (~last.ret /\ Obs = prev)

(* A map on which insert(x) has just been called twice in a row, x absent   *)
(* before the first call.                                                   *)
C2_Witness ==
    /\ target \in {"vec64", "bitmap"}
    /\ last.op = "insert"
    /\ last.after = "insert"
    /\ last.afterRet
    /\ ~last.ret

(* C3 as stated: with x absent, insert(x); remove(x) returns (true, true)   *)
(* and restores contents, count_ones and the set of block keys.             *)
C3_InsertRemoveRestoresKeys ==
    (last.op = "remove" /\ last.after = "insert" /\ last.afterRet) =>
        /\ last.ret
        /\ Obs.set = last.before.set
        /\ Obs.ones = last.before.ones
        /\ Obs.keys = last.before.keys

(* C3 as amended: with x absent, insert(x); remove(x) returns (true, true)  *)
(* and restores contents and count_ones; the block keys present before are  *)
(* still there, and any other key is one the insert created for x, left     *)
(* mapped to an empty block (or an empty map of blocks).                    *)
C3_InsertRemoveRestoresSet ==
    (last.op = "remove" /\ last.after = "insert" /\ last.afterRet) =>
        /\ last.ret
        /\ Obs.set = last.before.set
        /\ Obs.ones = last.before.ones
        /\ last.before.keys \subseteq Obs.keys
        /\ target = "bitmap" =>
              \A k \in Obs.keys \ last.before.keys :
                  k = Split32(last.x)[1] /\ Count1(bitmap.map[k]) = 0
        /\ target = "vec64" =>
              \A k \in Obs.keys \ last.before.keys :
                  /\ k[1] = Split64(last.x)[1]
                  /\ \/ k[2] = 0 - 1 /\ Vec32CountOnes(vec64.vec32s[k[1]]) = 0
                     \/ /\ k[2] = Split32(Split64(last.x)[2])[1]
                        /\ Count1(vec64.vec32s[k[1]].vec16s[k[2]]) = 0

(* A map from which the element just inserted (it was absent) has been      *)
(* removed again, the insert having created the block for its key.          *)
C3_Witness ==
    /\ target \in {"vec64", "bitmap"}
    /\ last.op = "remove"
    /\ last.after = "insert"
    /\ last.afterRet
    /\ last.ret
    /\ Obs.keys # last.before.keys

(* C4: count_ones equals the number of distinct elements in the set; for    *)
(* BitMap the separately kept pop counter equals the sum of the bucket      *)
(* cardinalities, for Vec64 count_ones is the sum of the block weights.     *)
C4_CountOnes ==
    /\ ObsOnes = Cardinality(abs)
    /\ target = "bitmap" =>
          LET ks == KeysU16(DOMAIN bitmap.map)
          IN  BitMapOnes(bitmap)
                = SumSeq([n \in 1..Len(ks) |-> Count1(bitmap.map[ks[n]])], Len(ks))

(* A BitMap holding elements on which an insert of a present element or a   *)
(* remove of an absent one has just returned false.                         *)
C4_Witness ==
    /\ target = "bitmap"
    /\ last.op \in Mutators
    /\ ~last.ret
    /\ Cardinality(abs) >= 2

(* C5: optimize never changes the abstract set: after every step, what is   *)
(* observable (contains, count_ones, iteration) equals what the same calls  *)
(* with every optimize left out give.                                       *)
C5_OptimizeKeepsSet ==
    /\ \A x \in Elems : ObsContains(x) <=> ShadowContains(x)
    /\ ObsOnes = ShadowOnes
    /\ ObsIter = ShadowIter

(* A Vec64 just optimized, non-empty, whose structure differs from that of  *)
(* the run without optimize.                                                *)
C5_Witness ==
    /\ target = "vec64"
    /\ last.op = "optimize"
    /\ abs # {}
    /\ Vec64Reshaped
    /\ DOMAIN vec64.vec32s # DOMAIN shadow.vec32s

(* The number of maximal runs of consecutive elements of S.                 *)
Runs(S) == Cardinality({x \in S : (x + 1) \notin S})

(* C6: Block optimize is idempotent and depends only on the abstract set:   *)
(* optimizing the optimized block again leaves it as it is, and the same    *)
(* set held as Seq16, as Seq64 or as Rle16 is optimized to that same block. *)
C6_OptimizeIdempotent ==
    last.op = "optimize" =>
        /\ Optimize(block) = block
        /\ \A k \in Kinds : Optimize(Reshape(k, abs)) = block

(* An optimized block at the tie of the sizes: 2048 runs of two elements,   *)
(* where all three representations take 8208 bytes.                         *)
C6_Witness ==
    /\ last.op = "optimize"
    /\ Cardinality(abs) = SEQ16
    /\ Runs(abs) = SEQ16 \div 2
    /\ block.kind = "Rle16"

(* C7: with weight n and r runs, in any starting representation, optimize   *)
(* leaves Rle16 if 16+4r <= min(16+8*1024, 16+2n), otherwise Seq16 if       *)
(* n <= 4096, otherwise Seq64; {0,2,...,8190} ends as Seq16, and            *)
(* [1000,60000] ends as Rle16 with one range and weight 59001.              *)
C7_OptimizeRule ==
    last.op = "optimize" =>
        LET n == Cardinality(abs)
            r == Runs(abs)
        IN  /\ block.kind = (IF 16 + 4 * r <= Min(16 + 8 * 1024, 16 + 2 * n) THEN "Rle16"
                             ELSE IF n <= 4096 THEN "Seq16"
                             ELSE "Seq64")
            /\ abs = {2 * k : k \in 0..4095} => block.kind = "Seq16"
            /\ abs = 1000..60000 =>
                  /\ block.kind = "Rle16"
                  /\ block.ranges = << <<1000, 60000>> >>
                  /\ Count1(block) = 59001

(* The 4096 even positions optimized: not Rle16, not Seq64.                 *)
C7_Witness ==
    /\ last.op = "optimize"
    /\ abs = {2 * k : k \in 0..4095}
    /\ block.kind = "Seq16"
    /\ Count1(block) = SEQ16

(* C8 as stated: for k < count_ones(b), select1(b, k) is a present position *)
(* p with rank1(b, p) = k, in every representation, the boundary blocks     *)
(* (empty, [0,0], [65535,65535], all 2^16 bits) included.                   *)
C8_SelectRank ==
    (last.op = "select1" /\ last.x < Count1(block)) =>
        /\ last.out.tag = "Some"
        /\ BlockContains(block, last.out.val)
        /\ Rank1(block, last.out.val) = last.x

(* The full block as one range [0, 65535]: select1(0) gives no position.    *)
C8_Witness ==
    /\ last.op = "select1"
    /\ last.x = 0
    /\ block.kind = "Rle16"
    /\ block.ranges = << <<0, U16MAX>> >>
    /\ last.out.tag # "Some"

(* C9: a block's rank1(i) is the number of elements strictly below i, and   *)
(* the same set held as Seq16, Seq64 or Rle16 gives the same value.         *)
C9_RankStrictlyBelow ==
    last.op = "rank1" =>
        /\ last.out = Cardinality({y \in abs : y < last.x})
        /\ \A k \in Kinds : Rank1(Reshape(k, abs), last.x) = last.out

(* rank1 of a present position with elements below it and above it.         *)
C9_Witness ==
    /\ last.op = "rank1"
    /\ last.x \in abs
    /\ last.out > 0
    /\ last.out < Cardinality(abs) - 1

LimbLeq(y, x) == y = x \/ LimbLess(y, x)

(* C11 as stated: Vec64 rank0(i) is the number of positions in [0, i] that  *)
(* are not in the set, for every i, i = 0 included (1 when 0 is absent,     *)
(* 0 when 0 is present).                                                    *)
C11_Rank0Closed ==
    (target = "vec64" /\ last.op = "rank0") =>
        last.out = LimbSub(LimbAdd(Widen(last.x), 1),
                           Cardinality({y \in abs : LimbLeq(y, last.x)}))

(* rank0(0) called on a map that does not hold 0 and is not empty: the      *)
(* answer is 0, not 1.                                                      *)
C11_Witness ==
    /\ target = "vec64"
    /\ last.op = "rank0"
    /\ last.x = Zero64
    /\ Zero64 \notin abs
    /\ abs # {}
    /\ last.out = Widen(Zero64)

(* An entry of the Vec64 that holds no element.                             *)
Vec64HasEmptied ==
    \E k \in DOMAIN vec64.vec32s : Vec32CountOnes(vec64.vec32s[k]) = 0

C13_Vec64Select0 ==
    (target = "vec64" /\ last.op = "select0") =>
        /\ last.out.tag = "Some"
        /\ last.out.val \notin abs
        /\ last.out.val
             = LimbAdd(Zero64, last.x + Cardinality({y \in abs : LimbLess(y, last.out.val)}))

(* select0(0) on the empty map: no position is returned.                    *)
C13_Witness ==
    /\ target = "vec64"
    /\ last.op = "select0"
    /\ last.x = 0
    /\ vec64 = Vec64New
    /\ last.out = None

(* C14: for each operator, each of the 9 pairs of representations and both  *)
(* forms, the result holds exactly the set operation of the operands' sets; *)
(* A = {0,1,2,3}, B = {2,3,4,5} give {2,3}, {0..5}, {0,1}, {0,1,4,5}.       *)
C14_PairwiseSets ==
    last.op \in PairOps =>
        /\ ~last.out.unreachable
        /\ BlockBits(last.out.blk) = SetOp(last.op, last.out.left, last.out.right)
        /\ last.out.form = "in-place" => (block = last.out.blk /\ BlockBits(block) = abs)
        /\ (last.out.left = {0, 1, 2, 3} /\ last.out.right = {2, 3, 4, 5}) =>
              BlockBits(last.out.blk)
                = (CASE last.op = "intersection" -> {2, 3}
                     [] last.op = "union" -> {0, 1, 2, 3, 4, 5}
                     [] last.op = "difference" -> {0, 1}
                     [] last.op = "symmetric_difference" -> {0, 1, 4, 5})

(* The symmetric difference of {0,1,2,3} held as Seq16 and {2,3,4,5} held   *)
(* as Rle16, in place.                                                      *)
C14_Witness ==
    /\ last.op = "symmetric_difference"
    /\ last.out.form = "in-place"
    /\ last.out.kinds = <<"Seq16", "Rle16">>
    /\ last.out.left = {0, 1, 2, 3}
    /\ last.out.right = {2, 3, 4, 5}
    /\ BlockBits(block) = {0, 1, 4, 5}

(* The keys of both levels of a Vec64 that map to something holding no      *)
(* element: <<k>> for a Vec32 entry, <<k, j>> for a block.                  *)
Vec64EmptyKeys(v) ==
    {<<k>> : k \in {k \in DOMAIN v.vec32s : Vec32CountOnes(v.vec32s[k]) = 0}}
        \cup UNION {{<<k, j>> : j \in {j \in DOMAIN v.vec32s[k].vec16s :
                                           Count1(v.vec32s[k].vec16s[j]) = 0}} :
                    k \in DOMAIN v.vec32s}

BitMapEmptyKeys(m) == {k \in DOMAIN m.map : Count1(m.map[k]) = 0}

(* C15 as stated: in every reachable state of the two-level map, no key     *)
(* maps to an empty block.                                                  *)
C15_NoEmptyBlock ==
    /\ target = "vec64" => Vec64EmptyKeys(vec64) = {}
    /\ target = "bitmap" => BitMapEmptyKeys(bitmap) = {}

(* C15: right after Vec64 optimize no key of either level maps to an empty  *)
(* block; a key maps to an empty block only in a map some remove has acted  *)
(* on since (the run without optimize then differs from `new` as well).     *)
C15_NoEmptyBlockAfterOptimize ==
    /\ (target = "vec64" /\ last.op = "optimize") => Vec64EmptyKeys(vec64) = {}
    /\ (target = "vec64" /\ Vec64EmptyKeys(vec64) # {}) => Vec64EmptyKeys(shadow) # {}

(* An optimize that dropped an entry that remove had emptied.               *)
C15_Witness ==
    /\ target = "vec64"
    /\ last.op = "optimize"
    /\ abs # {}
    /\ \E k \in DOMAIN shadow.vec32s \ DOMAIN vec64.vec32s :
          Vec32CountOnes(shadow.vec32s[k]) = 0

(* C16: every in-place pairwise operator, on every pair of representations, *)
(* reaches a direct arm after at most one as_seq64 of the left operand: the *)
(* fallback arm is taken only with a Seq16 or Rle16 left operand, the       *)
(* unreachable!() of as_seq64 is never executed, and the call made from the *)
(* fallback arm matches a direct arm with a Seq64 on the left.              *)
C16_DispatchDepth ==
    (last.op \in PairOps /\ last.out.form = "in-place") =>
        /\ ~last.out.unreachable
        /\ last.out.depth <= 1
        /\ last.out.depth = 1 =>
              /\ last.out.kinds[1] \in {"Seq16", "Rle16"}
              /\ last.out.blk.kind = "Seq64"

(* A union in place of an Rle16 block with a Seq16 block: one conversion.   *)
C16_Witness ==
    /\ last.op = "union"
    /\ last.out.form = "in-place"
    /\ last.out.kinds = <<"Rle16", "Seq16">>
    /\ last.out.depth = 1
    /\ block.kind = "Seq64"
    /\ last.out.right # {}

(* C17: when both operands are Seq16 the result is a Seq16 block, for each  *)
(* of the four operators, allocating (&a op &b) and in place.               *)
C17_Seq16Result ==
    (last.op \in PairOps /\ last.out.kinds = <<"Seq16", "Seq16">>) =>
        last.out.blk.kind = "Seq16"

(* &a | &b with a = {0,1,2,3} and b = {2,3,4,5} both Seq16: the collected   *)
(* result holds the union in a Seq64.                                       *)
C17_Witness ==
    /\ last.op = "union"
    /\ last.out.form = "allocating"
    /\ last.out.kinds = <<"Seq16", "Seq16">>
    /\ last.out.left = {0, 1, 2, 3}
    /\ last.out.right = {2, 3, 4, 5}
    /\ last.out.blk.kind = "Seq64"
    /\ BlockBits(last.out.blk) = {0, 1, 2, 3, 4, 5}

(* C18: after any pairwise operation, whatever the operator, the pair of    *)
(* representations and the form, the stored weight of the result equals the *)
(* number of elements its iteration yields.                                 *)
C18_WeightIsIterLen ==
    last.op \in PairOps =>
        /\ Count1(last.out.blk) = Len(BlockIter(last.out.blk))
        /\ Count1(last.out.blk) = Cardinality(SetOp(last.op, last.out.left, last.out.right))

(* The in-place intersection of a Seq16 with a Seq64 that drops entries of  *)
(* the left vector.                                                         *)
C18_Witness ==
    /\ last.op = "intersection"
    /\ last.out.form = "in-place"
    /\ last.out.kinds = <<"Seq16", "Seq64">>
    /\ last.out.left = {0, 1, 2, 3}
    /\ last.out.right = {2, 3, 4, 5}
    /\ block.kind = "Seq16"
    /\ block.weight = 2

(* The representations of smallest projected size for weight n and r runs.  *)
SmallestKinds(n, r) ==
    LET size == [k \in Kinds |-> CASE k = "Seq16" -> 16 + 2 * n
                                   [] k = "Seq64" -> 16 + 8 * 1024
                                   [] k = "Rle16" -> 16 + 4 * r]
    IN  {k \in Kinds : \A j \in Kinds : size[k] <= size[j]}

(* C19: for every weight n and feasible run count r, from every             *)
(* representation, optimize chooses the representation of smallest          *)
(* projected size among 16+2n (Seq16), 16+8*1024 (Seq64) and 16+4r (Rle16), *)
(* ties going to Rle16, then Seq16, then Seq64.                             *)
C19_OptimizeIsSmallest ==
    last.op = "optimize_kind" =>
        LET best == SmallestKinds(last.x[2], last.x[3])
        IN  last.out = (IF "Rle16" \in best THEN "Rle16"
                        ELSE IF "Seq16" \in best THEN "Seq16"
                        ELSE "Seq64")

(* The three-way tie: 4096 elements in 2048 runs, held as Seq64, goes to    *)
(* Rle16.                                                                   *)
C19_Witness ==
    /\ last.op = "optimize_kind"
    /\ last.x = <<"Seq64", 4096, 2048>>
    /\ SmallestKinds(4096, 2048) = Kinds
    /\ last.out = "Rle16"

(* C20: on a valid Rle16 block the u16 arithmetic of select1 and rank1      *)
(* (end - start + 1, curr + length) never exceeds 65535, so neither call    *)
(* panics, and on the full block [0, 65535] select1(k) returns k.           *)
C20_Rle16NoOverflow ==
    /\ (last.op = "rank1" /\ block.kind = "Rle16") => last.out # Panic
    /\ (last.op = "select1" /\ block.kind = "Rle16") =>
          /\ last.out.tag # "Panic"
          /\ Count1(block) = CAPACITY => last.out = Some(last.x)

(* A debug build, the full block as the single range [0, 65535], and        *)
(* select1(65535): end - start + 1 is 65536 and the call panics.            *)
C20_Witness ==
    /\ build = "debug"
    /\ last.op = "select1"
    /\ last.x = U16MAX
    /\ block.kind = "Rle16"
    /\ block.ranges = << <<0, U16MAX>> >>
    /\ Count1(block) = CAPACITY
    /\ last.out = Panicked

(* p is Ones(MAX) of the type T.                                            *)
IsOnesMax(T, p) == p.tag = "Ones" /\ Limbs(p.val) = MaxOf(T)

(* C21: PopCount<T> holds every cardinality in 0..=MAX+1: new(c) has        *)
(* cardinality c for c <= MAX+1; incr takes Ones(MAX) to Full and decr      *)
(* takes Full to Ones(MAX); incr then decr from a value other than Full     *)
(* gives the value back; and while no incr is applied at Full and no decr   *)
(* at Ones(0), the cardinality is that of the last new plus the incr calls  *)
(* minus the decr calls since.                                              *)
C21_PopCountExact ==
    target = "pop" =>
        LET T == pop.type
            p == pop.count
            h == last.out
        IN  /\ (last.op = "new" /\ PopFits(T, last.x)) =>
                  /\ p.tag \in {"Ones", "Full"}
                  /\ PopCardinality(T, p) = last.x
            /\ (last.op = "incr" /\ IsOnesMax(T, h.before)) => p = Full
            /\ (last.op = "decr" /\ h.before = Full) => IsOnesMax(T, p)
            /\ (last.op = "decr" /\ last.after = "incr" /\ h.before2.tag = "Ones") =>
                  p = h.before2
            /\ h.clean =>
                  /\ p.tag \in {"Ones", "Full"}
                  /\ PopCardinality(T, p) = h.start + h.incrs - h.decrs

(* A u16 counter at Ones(65535): incr made it Full, decr brought it back.   *)
C21_Witness ==
    /\ target = "pop"
    /\ pop.type = "u16"
    /\ last.op = "decr"
    /\ last.after = "incr"
    /\ last.out.before2 = Ones(U16MAX)
    /\ last.out.before = Full
    /\ pop.count = Ones(U16MAX)
    /\ last.out.clean

====
